---- MODULE Spec2Model ----
(***************************************************************************)
(* Model of bot/main.py: the catalog loader, the time-slot resolver, the   *)
(* dashboard file and the chat handlers (cmd_start, cmd_dashboard,         *)
(* on_text, on_button) of the "What's on the Menu Today" bot.              *)
(*                                                                         *)
(* Conventions                                                             *)
(*   - a datetime.time is its number of seconds since midnight;            *)
(*   - a Python dict is a function whose DOMAIN is the set of its keys;    *)
(*   - a callback token "tag:arg" is the record [tag, arg];                *)
(*   - a Telegram message id is a positive integer, None is 0.             *)
(***************************************************************************)
EXTENDS Integers, Sequences, FiniteSets, TLC

VARIABLES
    menus_file,       \* rows of Menulist.json                     (main.py:34)
    dishes_file,      \* rows of MenuAndDishes.json                (main.py:35)
    boot,             \* where main() is: "load", "polling" or "exit"
    MENUS_BY_ID,      \* global dict  menu id -> menu name          (main.py:80)
    DISHES_BY_MENU,   \* global dict  menu id -> list of Dish       (main.py:81)
    chat,             \* context.chat_data of the conversation      (main.py:46-51)
    msgs,             \* bot messages of the chat that carry buttons or are edited
    dash,             \* rows of dashboard.json                     (main.py:37)
    ev,               \* the update handled last and the inputs its handler read
    fx,               \* what the last handler did, in order (gateway calls, log rows, raise)
    r_times,          \* resolver harness: argument list of next_slot_time
    r_dishes,         \* resolver harness: argument list of filter_dishes_for_next_slot_baseline
    r_now,            \* resolver harness: baseline time of day of the call
    r_slot,           \* resolver harness: value returned by next_slot_time
    r_out,            \* resolver harness: <<filtered, target>> returned by the filter
    r_pc              \* resolver harness: which function ran last

vars == <<menus_file, dishes_file, boot,
          MENUS_BY_ID, DISHES_BY_MENU, chat, msgs, dash, ev, fx,
          r_times, r_dishes, r_now, r_slot, r_out, r_pc>>

fileVars == <<menus_file, dishes_file, boot>>

navVars == <<MENUS_BY_ID, DISHES_BY_MENU, chat, msgs, dash, ev, fx>>
resVars == <<r_times, r_dishes, r_now, r_slot, r_out, r_pc>>

-----------------------------------------------------------------------------
(* Bounds of the model *)

MaxMsgs == 2        \* stored bot messages per chat
MaxDash == 1        \* rows of dashboard.json
MaxT == 3           \* resolver harness: times of day 0..MaxT
MaxLen == 3         \* resolver harness: length of the argument lists

-----------------------------------------------------------------------------
(* Generic helpers *)

Range(s) == {s[i] : i \in 1..Len(s)}

\* dict with d[k] = v set
DictSet(d, k, v) == [x \in (DOMAIN d) \cup {k} |-> IF x = k THEN v ELSE d[x]]

\* dict.pop(k, None)
DictPop(d, k) == [x \in (DOMAIN d) \ {k} |-> d[x]]

\* dict.get(k, default)
DictGet(d, k, default) == IF k \in DOMAIN d THEN d[k] ELSE default

EmptyDict == [x \in {} |-> 0]

-----------------------------------------------------------------------------
(* Times of day *)

NoTime == 0 - 1                       \* parse_before_time's None
HMS(h, m, s) == h * 3600 + m * 60 + s \* dtime(h, m, s)
Midnight == HMS(0, 0, 0)              \* dtime(0, 0)

\* A "Before Timing" text, by its parts: hour, minute, second (-1: no seconds
\* part), AM/PM suffix ("" : none), and whether the text is empty.
RawTime(h, m, s, p) == [h |-> h, m |-> m, s |-> s, p |-> p]
EmptyText == RawTime(0 - 1, 0 - 1, 0 - 1, "")

\* datetime.strptime(value, fmt).time() for the four formats, None when the
\* text does not match
Strptime12(v, withSec) ==
    IF /\ v.p \in {"AM", "PM"}
       /\ v.h \in 1..12 /\ v.m \in 0..59
       /\ (IF withSec THEN v.s \in 0..59 ELSE v.s = 0 - 1)
    THEN HMS((v.h % 12) + (IF v.p = "PM" THEN 12 ELSE 0), v.m, IF withSec THEN v.s ELSE 0)
    ELSE NoTime

Strptime24(v, withSec) ==
    IF /\ v.p = ""
       /\ v.h \in 0..23 /\ v.m \in 0..59
       /\ (IF withSec THEN v.s \in 0..59 ELSE v.s = 0 - 1)
    THEN HMS(v.h, v.m, IF withSec THEN v.s ELSE 0)
    ELSE NoTime

\* first matching format wins
parse_before_time(value) ==
    IF value = EmptyText THEN NoTime
    ELSE IF Strptime12(value, TRUE) # NoTime THEN Strptime12(value, TRUE)
    ELSE IF Strptime12(value, FALSE) # NoTime THEN Strptime12(value, FALSE)
    ELSE IF Strptime24(value, TRUE) # NoTime THEN Strptime24(value, TRUE)
    ELSE IF Strptime24(value, FALSE) # NoTime THEN Strptime24(value, FALSE)
    ELSE NoTime

-----------------------------------------------------------------------------
(* Time-slot resolver *)

\* Python's min() over a non-empty list: scan left to right, keep the smaller
RECURSIVE MinFrom(_, _, _)
MinFrom(s, i, best) ==
    IF i > Len(s) THEN best
    ELSE MinFrom(s, i + 1, IF s[i] < best THEN s[i] ELSE best)

PyMin(s) == MinFrom(s, 2, s[1])

\* mutant of After: "t >= now_t"
RECURSIVE AfterOrAt(_, _, _)
AfterOrAt(times, now_t, i) ==
    IF i > Len(times) THEN <<>>
    ELSE (IF times[i] >= now_t THEN <<times[i]>> ELSE <<>>) \o AfterOrAt(times, now_t, i + 1)

\* [t for t in times if t > now_t]
RECURSIVE After(_, _, _)
After(times, now_t, i) ==
    IF i > Len(times) THEN <<>>
    ELSE (IF times[i] > now_t THEN <<times[i]>> ELSE <<>>) \o After(times, now_t, i + 1)

\* mutant of next_slot_time: no wrap-around to the earliest cutoff
next_slot_time_nowrap(now_t, times) ==
    IF times = <<>> THEN Midnight
    ELSE LET after == After(times, now_t, 1)
         IN  IF after # <<>> THEN PyMin(after) ELSE Midnight

next_slot_time(now_t, times) ==
    IF times = <<>> THEN Midnight
    ELSE LET after == After(times, now_t, 1)
         IN  IF after # <<>> THEN PyMin(after) ELSE PyMin(times)

\* sorted({d.before_time for d in dishes})
RECURSIVE SortedSet(_)
SortedSet(S) ==
    IF S = {} THEN <<>>
    ELSE LET m == CHOOSE x \in S : \A y \in S : x <= y
         IN  <<m>> \o SortedSet(S \ {m})

\* mutant of Filtered: the matches are collected in reverse
RECURSIVE FilteredReversed(_, _, _)
FilteredReversed(dishes, target, i) ==
    IF i > Len(dishes) THEN <<>>
    ELSE FilteredReversed(dishes, target, i + 1)
         \o (IF dishes[i].before_time = target THEN <<dishes[i]>> ELSE <<>>)

\* [d for d in dishes if d.before_time == target]
RECURSIVE Filtered(_, _, _)
Filtered(dishes, target, i) ==
    IF i > Len(dishes) THEN <<>>
    ELSE (IF dishes[i].before_time = target THEN <<dishes[i]>> ELSE <<>>)
         \o Filtered(dishes, target, i + 1)

\* returns <<filtered, target>>; now_base is now_in_baseline_tz().time()
filter_dishes_for_next_slot_baseline(dishes, now_base) ==
    LET slots == SortedSet({dishes[i].before_time : i \in 1..Len(dishes)})
    IN  IF slots = <<>> THEN << <<>>, Midnight >>
        ELSE LET target == next_slot_time(now_base, slots)
             IN  << Filtered(dishes, target, 1), target >>

-----------------------------------------------------------------------------
(* Catalog: data model and loading *)

\* the fields of Dish the handlers read; price, tagline, nutrition, challenge
\* text and best_timing are display text only
Dish(mid, menu_name, dish_name, challenge_id, before_t) ==
    [menu_id |-> mid, menu_name |-> menu_name, dish |-> dish_name,
     challenge_id |-> challenge_id, before_time |-> before_t]

\* a row of Menulist.json
MenuRow(mid, name) == [mid |-> mid, name |-> name]

\* a row of MenuAndDishes.json; menu = Missing when the row has no "Menu" key
Missing == "<missing>"
DishRow(mid, menu, dish_name, challenge_id, before_raw) ==
    [mid |-> mid, menu |-> menu, dish |-> dish_name,
     challenge_id |-> challenge_id, before |-> before_raw]

\* first loop of load_data: rows with an id and a name enter menus_by_id
RECURSIVE LoadMenus(_, _, _)
LoadMenus(menus_raw, i, menus_by_id) ==
    IF i > Len(menus_raw) THEN menus_by_id
    ELSE LET row == menus_raw[i]
         IN  LoadMenus(menus_raw, i + 1,
                 IF row.mid # "" /\ row.name # ""
                 THEN DictSet(menus_by_id, row.mid, row.name)
                 ELSE menus_by_id)

\* the test that skips a dish row
SkipDishRow(mid, dish_name, before_t) ==
    mid = "" \/ dish_name = "" \/ before_t = NoTime

\* second loop of load_data: dishes_by_menu.setdefault(mid, []).append(Dish(...))
RECURSIVE LoadDishes(_, _, _, _)
LoadDishes(dishes_raw, i, menus_by_id, dishes_by_menu) ==
    IF i > Len(dishes_raw) THEN dishes_by_menu
    ELSE LET row == dishes_raw[i]
             menu_name == IF row.menu = Missing
                          THEN DictGet(menus_by_id, row.mid, "")
                          ELSE row.menu
             before_t == parse_before_time(row.before)
         IN  LoadDishes(dishes_raw, i + 1, menus_by_id,
                 IF SkipDishRow(row.mid, row.dish, before_t)
                 THEN dishes_by_menu
                 ELSE DictSet(dishes_by_menu, row.mid,
                          Append(DictGet(dishes_by_menu, row.mid, <<>>),
                                 Dish(row.mid, menu_name, row.dish,
                                      row.challenge_id, before_t))))

\* mutant of KeepMenu: no menu is removed
KeepEveryMenu(dishes_by_menu, mid) == TRUE

\* the menus the last loop of load_data keeps
KeepMenu(dishes_by_menu, mid) == dishes_by_menu[mid] # <<>>

\* returns <<menus_by_id, dishes_by_menu>>
load_data(menus_raw, dishes_raw) ==
    LET menus0 == LoadMenus(menus_raw, 1, EmptyDict)
        dishes0 == LoadDishes(dishes_raw, 1, menus0, [k \in DOMAIN menus0 |-> <<>>])
        keep == {mid \in DOMAIN dishes0 : KeepMenu(dishes0, mid)}
    IN  << [mid \in (DOMAIN menus0) \cap keep |-> menus0[mid]],
           [mid \in keep |-> dishes0[mid]] >>

\* The input files the model starts from.  Files 1: a menu with two cutoff
\* buckets, a menu whose only dish is dropped, menu rows without id or name,
\* a dish of a menu Menulist.json does not list, dish rows without id, name
\* or a parseable time.  Files 2: four menus of one dish each.
MenusRaw1 ==
    << MenuRow("A", "Alpha"), MenuRow("B", "Beta"),
       MenuRow("", "NoId"), MenuRow("N", "") >>

DishesRaw1 ==
    << DishRow("A", "Alpha", "a1", "ca1", RawTime(11, 0, 0 - 1, "AM")),
       DishRow("A", Missing, "a2", "ca2", RawTime(14, 0, 0 - 1, "")),
       DishRow("A", "Alpha", "a3", "ca3", RawTime(11, 0, 0, "")),
       DishRow("A", "Alpha", "a4", "ca4", RawTime(25, 0, 0 - 1, "")),
       DishRow("B", "Beta", "b1", "cb1", RawTime(13, 0, 0 - 1, "PM")),
       DishRow("E", "Extra", "e1", "ce1", RawTime(2, 0, 0, "PM")),
       DishRow("", "Alpha", "x1", "cx1", RawTime(11, 0, 0 - 1, "")),
       DishRow("A", "Alpha", "", "cx2", RawTime(11, 0, 0 - 1, "")),
       DishRow("A", "Alpha", "x3", "cx3", EmptyText) >>

MenusRaw2 ==
    << MenuRow("P", "Pho"), MenuRow("Q", "Quiche"), MenuRow("R", "Ramen"),
       MenuRow("S", "Soup") >>

DishesRaw2 ==
    << DishRow("P", "Pho", "p1", "cp1", RawTime(14, 0, 0 - 1, "")),
       DishRow("Q", "Quiche", "q1", "cq1", RawTime(2, 0, 0 - 1, "PM")),
       DishRow("R", Missing, "r1", "cr1", RawTime(14, 0, 0, "")),
       DishRow("S", "Soup", "s1", "cs1", RawTime(2, 0, 0, "PM")) >>

\* baseline times of day at which an update may be handled
NowTimes == { HMS(11, 0, 0), HMS(15, 0, 0) }

\* the users who press buttons in the chat
Users == { 101, 202 }

-----------------------------------------------------------------------------
(* Callback tokens, message contents, keyboards *)

Tok(tag, arg) == [tag |-> tag, arg |-> arg]
ListTok == Tok("list", "")          \* callback_data "list"
RandomTok == Tok("r", "")           \* callback_data "r"
BackTok == Tok("b", "")             \* callback_data "b"
MenuTok(mid) == Tok("m", mid)       \* callback_data "m:<mid>"
SelTok(text) == Tok("sel", text)    \* callback_data "sel:<text>"
OtherTok == Tok("x", "")            \* any other callback_data

\* the index texts of the model and Python's str() and int() on them
IntTexts == << "-1", "0", "1", "2", "3" >>
PyStr(n) == IntTexts[n + 2]
IsIntText(text) == \E k \in 1..Len(IntTexts) : IntTexts[k] = text
PyInt(text) == (CHOOSE k \in 1..Len(IntTexts) : IntTexts[k] = text) - 2

\* what a bot message shows: its kind and the data its text and buttons are built from
Content(kind, subset, dishes, menu) ==
    [kind |-> kind, subset |-> subset, dishes |-> dishes, menu |-> menu]

IntroMsg == Content("intro", <<>>, <<>>, "")
PromptMsg == Content("prompt", <<>>, <<>>, "")
MenuListMsg(subset) == Content("menulist", subset, <<>>, "")
SelectedMsg(menu_name) == Content("selected", <<>>, <<>>, menu_name)
UnavailableMsg == Content("unavailable", <<>>, <<>>, "")
DishListMsg(menu_name, dishes) == Content("dishlist", <<>>, dishes, menu_name)
NoDishesMsg(menu_name) == Content("nodishes", <<>>, <<>>, menu_name)
CardMsg(d) == Content("card", <<>>, <<d>>, "")
ChallengeMsg(d) == Content("challenge", <<>>, <<d>>, "")
HelpMsg == Content("help", <<>>, <<>>, "")
FallbackMsg == Content("fallback", <<>>, <<>>, "")
OopsMsg == Content("oops", <<>>, <<>>, "")

menu_list_keyboard(subset_ids) ==
    <<RandomTok>> \o [i \in 1..Len(subset_ids) |-> MenuTok(subset_ids[i])]

build_dish_buttons(dishes) ==
    [i \in 1..Len(dishes) |-> SelTok(PyStr(i - 1))] \o <<BackTok>>

\* the inline keyboard a message of this content carries
Keyboard(c) ==
    CASE c.kind \in {"intro", "prompt"} -> <<ListTok>>
      [] c.kind = "menulist" -> menu_list_keyboard(c.subset)
      [] c.kind = "dishlist" -> build_dish_buttons(c.dishes)
      [] OTHER -> <<>>

\* What msgs keeps of a message: its kind and the dishes its "sel:" buttons
\* index.  The full content of a render is in fx while its handler is the
\* last one.
Stored(c) == [kind |-> c.kind, dishes |-> IF c.kind = "dishlist" THEN c.dishes ELSE <<>>]

\* whether a message kept as m carries a button with this token
Offers(m, data) ==
    CASE m.kind \in {"intro", "prompt"} -> data = ListTok
      [] m.kind = "menulist" -> data.tag \in {"r", "m"}
      [] m.kind = "dishlist" -> data \in Range(build_dish_buttons(m.dishes))
      [] OTHER -> FALSE

\* mutant of pick_menu_subset: the shuffle is not cut
pick_menu_subset_uncut(menus_by_id) ==
    LET ids == DOMAIN menus_by_id
        k == Cardinality(ids)
    IN  {s \in [1..k -> ids] : \A i, j \in 1..k : i # j => s[i] # s[j]}

\* the lists pick_menu_subset can return: a shuffle of the menu ids, cut to 3
SubsetSize(n) == IF n < 3 THEN n ELSE 3

pick_menu_subset(menus_by_id) ==
    LET ids == DOMAIN menus_by_id
        k == SubsetSize(Cardinality(ids))
    IN  {s \in [1..k -> ids] : \A i, j \in 1..k : i # j => s[i] # s[j]}

-----------------------------------------------------------------------------
(* Effects of a handler, in the order the code produces them *)

Fx(op, ref, what) == [op |-> op, ref |-> ref, what |-> what]

Note(kind) == Content(kind, <<>>, <<>>, "")
Log(event) == Fx("log", 0, Note(event))         \* log_event(update, context, event)
Warn(what) == Fx("warn", 0, Note(what))         \* logging.warning(...)
DashFx == Fx("dash", 0, Note("append"))         \* append_dashboard_entry(...)

\* a gateway edit of message ref to content c: done, or failed with an exception
EditFx(ok, ref, c) == Fx(IF ok THEN "edit" ELSE "edit_failed", ref, c)
\* a gateway send of content c
SendFx(ok, c) == Fx(IF ok THEN "send" ELSE "send_failed", 0, c)

\* the chat's messages after the edit
Edited(ms, ok, ref, c) ==
    IF ok /\ ref \in 1..Len(ms) THEN [ms EXCEPT ![ref] = Stored(c)] ELSE ms

\* on_error: the exception left the handler; log it, tell the user
on_error(f) == f \o << Fx("raise", 0, Note("on_error")), Fx("try_send", 0, OopsMsg) >>

Raised(f) == \E i \in 1..Len(f) : f[i].op = "raise"
Has(f, op, kind) == \E i \in 1..Len(f) : f[i].op = op /\ f[i].what.kind = kind

-----------------------------------------------------------------------------
(* chat_data *)

NoneId == 0                       \* Python None where a message id is expected

Truthy(d, k) == k \in DOMAIN d /\ d[k] # NoneId    \* d.get(k) is truthy, for ids

\* context.chat_data.clear()
ClearChat == EmptyDict

Event(kind, data, msg, had, user, now) ==
    [kind |-> kind, data |-> data, msg |-> msg, had |-> had, user |-> user, now |-> now]

-----------------------------------------------------------------------------
(* Handlers.  Each handler body is an operator from the state it reads and  *)
(* its inputs (the token, the pressed message, the values of the random and *)
(* clock calls, the outcome of each gateway call) to the state it leaves.   *)

Result(c, ms, d, f) == [chat |-> c, msgs |-> ms, dash |-> d, fx |-> f]

\* mutant of SetVisible: the message id is not stored
SetVisibleNoRef(c, filtered, msg_id) == DictSet(c, "cards_dishes", filtered)

\* context.chat_data["cards_dishes"] = filtered; ["list_msg_id"] = msg.message_id
SetVisible(c, filtered, msg_id) ==
    DictSet(DictSet(c, "cards_dishes", filtered), "list_msg_id", msg_id)

\* mutant of ClearVisible: the accepted dish list stays visible
KeepVisible(c) == c

\* context.chat_data["cards_dishes"] = []; ["list_msg_id"] = None
ClearVisible(c) ==
    DictSet(DictSet(c, "cards_dishes", <<>>), "list_msg_id", NoneId)

\* mutant of PopSelection: list_msg_id is not popped
PopSelectionKeepRef(c) == DictPop(DictPop(c, "menu_id"), "cards_dishes")

\* the three pops of the "b" branch
PopSelection(c) ==
    DictPop(DictPop(DictPop(c, "menu_id"), "cards_dishes"), "list_msg_id")

\* the row append_dashboard_entry writes (its date is not modelled: the
\* model's clock is a time of day)
DashEntry(user_id, challenge_id, dish_name, menu_name) ==
    [user_id |-> user_id, challenge_id |-> challenge_id,
     dish |-> dish_name, menu |-> menu_name]

\* _append_json_row on a readable dashboard.json
append_dashboard_entry(rows, user_id, challenge_id, dish_name, menu_name) ==
    Append(rows, DashEntry(user_id, challenge_id, dish_name, menu_name))

\* mutant of show_filtered_cards_send_new: the unfiltered list is stored
show_all_cards_send_new(c, ms, d, f, now, sendOk) ==
    LET mid == c["menu_id"]
        all_dishes == DISHES_BY_MENU[mid]
        menu_name == DictGet(MENUS_BY_ID, mid, "Selected Menu")
        body == DishListMsg(menu_name, all_dishes)
        f1 == f \o << SendFx(sendOk, body) >>
    IN  IF sendOk
        THEN Result(SetVisible(c, all_dishes, Len(ms) + 1), Append(ms, Stored(body)), d, f1)
        ELSE Result(c, ms, d, on_error(f1))

\* show_filtered_cards_send_new: the send is outside any try
show_filtered_cards_send_new(c, ms, d, f, now, sendOk) ==
    LET mid == c["menu_id"]
        all_dishes == DISHES_BY_MENU[mid]
        menu_name == DictGet(MENUS_BY_ID, mid, "Selected Menu")
        filtered == filter_dishes_for_next_slot_baseline(all_dishes, now)[1]
    IN  IF filtered = <<>>
        THEN LET f1 == f \o << SendFx(sendOk, NoDishesMsg(menu_name)) >>
             IN  Result(c, ms, d, IF sendOk THEN f1 ELSE on_error(f1))
        ELSE LET body == DishListMsg(menu_name, filtered)
                 f1 == f \o << SendFx(sendOk, body) >>
             IN  IF sendOk
                 THEN Result(SetVisible(c, filtered, Len(ms) + 1), Append(ms, Stored(body)), d, f1)
                 ELSE Result(c, ms, d, on_error(f1))

\* data == "list"
button_list(c, ms, d, q, subset, editOk) ==
    LET c1 == DictSet(ClearChat, "menu_subset", subset)
        text == MenuListMsg(subset)
        f1 == << Log("menu_list_opened"), EditFx(editOk, q, text) >>
    IN  IF editOk
        THEN Result(DictSet(c1, "last_menu_list_msg_id", q), Edited(ms, TRUE, q, text), d, f1)
        ELSE Result(c1, ms, d, on_error(f1))

\* data == "r"; mid is the value of random.choice(list(DISHES_BY_MENU.keys()))
button_random(c, ms, d, q, mid, now, editOk, sendOk) ==
    LET c1 == DictSet(c, "menu_id", mid)
        menu_name == DictGet(MENUS_BY_ID, mid, "Selected Menu")
        selected_text == SelectedMsg(menu_name)
        f1 == << Log("menu_random") >>
    IN  IF Truthy(c1, "last_menu_list_msg_id")
        THEN LET menu_list_id == c1["last_menu_list_msg_id"]
                 f2 == f1 \o << EditFx(editOk, menu_list_id, selected_text) >>
                       \o (IF editOk THEN <<>> ELSE << Warn("menu list") >>)
             IN  show_filtered_cards_send_new(
                     c1, Edited(ms, editOk, menu_list_id, selected_text), d, f2, now, sendOk)
        ELSE LET f2 == f1 \o << EditFx(editOk, q, selected_text) >>
                 c2 == IF editOk THEN DictSet(c1, "last_menu_list_msg_id", q) ELSE c1
             IN  show_filtered_cards_send_new(
                     c2, Edited(ms, editOk, q, selected_text), d, f2, now, sendOk)

\* mutant of unavailable_notice: the selection is dropped with the notice
unavailable_notice_reset(c, ms, d, q, editOk) ==
    LET f1 == << EditFx(editOk, q, UnavailableMsg) >>
    IN  Result(PopSelection(c), Edited(ms, editOk, q, UnavailableMsg), d,
               IF editOk THEN f1 ELSE on_error(f1))

\* the body of "if mid not in DISHES_BY_MENU": an edit outside any try, return
unavailable_notice(c, ms, d, q, editOk) ==
    LET f1 == << EditFx(editOk, q, UnavailableMsg) >>
    IN  Result(c, Edited(ms, editOk, q, UnavailableMsg), d,
               IF editOk THEN f1 ELSE on_error(f1))

\* data.startswith("m:")
button_menu(c, ms, d, q, mid, now, editOk, sendOk) ==
    IF mid \notin DOMAIN DISHES_BY_MENU
    THEN unavailable_notice(c, ms, d, q, editOk)
    ELSE LET c1 == DictSet(c, "menu_id", mid)
             menu_name == DictGet(MENUS_BY_ID, mid, "Selected Menu")
             selected_text == SelectedMsg(menu_name)
             f1 == << Log("menu_selected"), EditFx(editOk, q, selected_text) >>
                   \o (IF editOk THEN <<>> ELSE << Warn("menu list") >>)
             c2 == IF editOk THEN DictSet(c1, "last_menu_list_msg_id", q) ELSE c1
         IN  show_filtered_cards_send_new(
                 c2, Edited(ms, editOk, q, selected_text), d, f1, now, sendOk)

\* data == "b"
button_back(c, ms, d, q, subset, editOk) ==
    LET c1 == DictSet(PopSelection(c), "menu_subset", subset)
        text == MenuListMsg(subset)
        f1 == << Log("back_to_menus"), EditFx(editOk, q, text) >>
    IN  Result(IF editOk THEN DictSet(c1, "last_menu_list_msg_id", q) ELSE c1,
               Edited(ms, editOk, q, text), d, f1)

\* the redirect of the "sel:" branch: render the menu list on the pressed
\* message; the edit is outside any try and chat_data is not touched
sel_redirect(c, ms, d, q, fresh, editOk) ==
    LET subset == DictGet(c, "menu_subset", fresh)
        text == MenuListMsg(subset)
        f1 == << EditFx(editOk, q, text) >>
    IN  Result(c, Edited(ms, editOk, q, text), d, IF editOk THEN f1 ELSE on_error(f1))

\* idx = int(data.split(":", 1)[1]), 0 on ValueError
SelIndex(text) == IF IsIntText(text) THEN PyInt(text) ELSE 0

\* not dishes_shown or idx < 0 or idx >= len(dishes_shown) or not list_msg_id
SelRejected(c, idx) ==
    LET dishes_shown == DictGet(c, "cards_dishes", <<>>)
    IN  \/ dishes_shown = <<>>
        \/ idx < 0
        \/ idx >= Len(dishes_shown)
        \/ ~Truthy(c, "list_msg_id")

\* whether the "sel:" branch goes on to the selected dish
SelAccepts(c, text) == "menu_id" \in DOMAIN c /\ ~SelRejected(c, SelIndex(text))

\* mutant of sel_accept: the row is written after the challenge is sent
sel_accept_send_first(c, ms, d, idx, user_id, editOk, sendOk, sendOk2) ==
    LET dish == c["cards_dishes"][idx + 1]
        list_msg_id == c["list_msg_id"]
        f1 == << EditFx(editOk, list_msg_id, CardMsg(dish)) >>
              \o (IF editOk THEN <<>> ELSE << Warn("dish list") >>)
        ms1 == Edited(ms, editOk, list_msg_id, CardMsg(dish))
        c1 == ClearVisible(c)
        from_menu == DictGet(MENUS_BY_ID, dish.menu_id, dish.menu_name)
        d1 == append_dashboard_entry(d, user_id, dish.challenge_id, dish.dish, from_menu)
        f2 == f1 \o << SendFx(sendOk, ChallengeMsg(dish)) >>
        f3 == f2 \o << DashFx, Log("dish_selected"), SendFx(sendOk2, HelpMsg) >>
    IN  IF ~sendOk THEN Result(c1, ms1, d, on_error(f2))
        ELSE Result(c1, ms1, d1, IF sendOk2 THEN f3 ELSE on_error(f3))

\* the rest of the "sel:" branch, once the token is accepted
sel_accept(c, ms, d, idx, user_id, editOk, sendOk, sendOk2) ==
    LET dish == c["cards_dishes"][idx + 1]
        list_msg_id == c["list_msg_id"]
        f1 == << EditFx(editOk, list_msg_id, CardMsg(dish)) >>
              \o (IF editOk THEN <<>> ELSE << Warn("dish list") >>)
        ms1 == Edited(ms, editOk, list_msg_id, CardMsg(dish))
        c1 == ClearVisible(c)
        from_menu == DictGet(MENUS_BY_ID, dish.menu_id, dish.menu_name)
        d1 == append_dashboard_entry(d, user_id, dish.challenge_id, dish.dish, from_menu)
        f2 == f1 \o << DashFx, Log("dish_selected"), SendFx(sendOk, ChallengeMsg(dish)) >>
        f3 == f2 \o << SendFx(sendOk2, HelpMsg) >>
    IN  IF ~sendOk THEN Result(c1, ms1, d1, on_error(f2))
        ELSE Result(c1, ms1, d1, IF sendOk2 THEN f3 ELSE on_error(f3))

\* data.startswith("sel:")
button_sel(c, ms, d, q, text, user_id, fresh, editOk, sendOk, sendOk2) ==
    IF "menu_id" \notin DOMAIN c
    THEN sel_redirect(c, ms, d, q, fresh, editOk)
    ELSE IF SelRejected(c, SelIndex(text))
    THEN sel_redirect(c, ms, d, q, fresh, editOk)
    ELSE sel_accept(c, ms, d, SelIndex(text), user_id, editOk, sendOk, sendOk2)

\* the fallback at the end of on_button
button_other(c, ms, d, q, editOk) ==
    LET f1 == << EditFx(editOk, q, FallbackMsg) >>
    IN  Result(c, Edited(ms, editOk, q, FallbackMsg), d, IF editOk THEN f1 ELSE on_error(f1))

\* cmd_start: log, reply with the intro and its "list" button
cmd_start(c, ms, d, sendOk) ==
    LET f1 == << Log("start"), SendFx(sendOk, IntroMsg) >>
    IN  IF sendOk THEN Result(c, Append(ms, Stored(IntroMsg)), d, f1)
        ELSE Result(c, ms, d, on_error(f1))

\* mutant of on_text: the session is cleared before the reply
on_text_clears(c, ms, d, sendOk) ==
    LET f1 == << Log("free_text_blocked"), SendFx(sendOk, PromptMsg) >>
    IN  IF sendOk THEN Result(ClearChat, Append(ms, Stored(PromptMsg)), d, f1)
        ELSE Result(ClearChat, ms, d, on_error(f1))

\* on_text: log, reply with the prompt and its "list" button
on_text(c, ms, d, sendOk) ==
    LET f1 == << Log("free_text_blocked"), SendFx(sendOk, PromptMsg) >>
    IN  IF sendOk THEN Result(c, Append(ms, Stored(PromptMsg)), d, f1)
        ELSE Result(c, ms, d, on_error(f1))

\* str(n) of a non-negative int, as the list of its decimal digits
RECURSIVE PyStrNat(_)
PyStrNat(n) == IF n < 10 THEN <<n>> ELSE PyStrNat(n \div 10) \o <<n % 10>>

\* mutant of read_user_dashboard: the rows are not filtered
read_whole_dashboard(rows, user_id) == rows

\* read_user_dashboard on a dashboard.json that is absent (rows = <<>>) or
\* holds the list rows: [r for r in rows if str(r.get("user_id")) == str(user_id)]
read_user_dashboard(rows, user_id) ==
    SelectSeq(rows, LAMBDA r : PyStrNat(r.user_id) = PyStrNat(user_id))

\* the replies of cmd_dashboard; a line per row, built from the row's dish
\* and menu
EmptyDashboardMsg == Content("dashboard_empty", <<>>, <<>>, "")
DashboardMsg(rows) == Content("dashboard", <<>>, rows, "")

\* cmd_dashboard: log, read the user's rows, reply
cmd_dashboard(c, ms, d, user_id, sendOk) ==
    LET rows == read_user_dashboard(d, user_id)
        reply == IF rows = <<>> THEN EmptyDashboardMsg ELSE DashboardMsg(rows)
        f1 == << Log("my_dashboard"), SendFx(sendOk, reply) >>
    IN  Result(c, ms, d, IF sendOk THEN f1 ELSE on_error(f1))

-----------------------------------------------------------------------------
(* The chat: one action per handler and per path of on_button.  Every       *)
(* action applies its whole handler; an input a path does not read is not   *)
(* drawn.                                                                   *)

\* the state a handler leaves, and the update it handled
Apply(res, event) ==
    /\ chat' = res.chat
    /\ msgs' = res.msgs
    /\ dash' = res.dash
    /\ fx' = res.fx
    /\ ev' = event
    /\ UNCHANGED <<MENUS_BY_ID, DISHES_BY_MENU>>
    /\ UNCHANGED fileVars
    /\ UNCHANGED resVars

NoUser == 0

\* a button press: the token, the message it came from, whether that message
\* carries such a button, and the user and clock values the handler read
Pressed(q, data, user, now) == Event("button", data, q, Offers(msgs[q], data), user, now)

UnknownIds == { "B" }                       \* menu ids of tokens that name no loaded menu
SelTexts == { "-1", "0", "1", "2", "abc" }  \* index texts of "sel:" tokens

CmdStart(sendOk) ==
    Apply(cmd_start(chat, msgs, dash, sendOk),
          Event("start", OtherTok, 0, FALSE, NoUser, NoTime))

OnText(sendOk) ==
    Apply(on_text(chat, msgs, dash, sendOk),
          Event("text", OtherTok, 0, FALSE, NoUser, NoTime))

ButtonList(q, subset, editOk) ==
    Apply(button_list(chat, msgs, dash, q, subset, editOk),
          Pressed(q, ListTok, NoUser, NoTime))

ButtonRandom(q, mid, now, editOk, sendOk) ==
    Apply(button_random(chat, msgs, dash, q, mid, now, editOk, sendOk),
          Pressed(q, RandomTok, NoUser, now))

ButtonMenu(q, mid, now, editOk, sendOk) ==
    /\ mid \in DOMAIN DISHES_BY_MENU
    /\ Apply(button_menu(chat, msgs, dash, q, mid, now, editOk, sendOk),
             Pressed(q, MenuTok(mid), NoUser, now))

\* the clock is not read and nothing is sent on this path
ButtonMenuUnknown(q, mid, editOk) ==
    /\ mid \notin DOMAIN DISHES_BY_MENU
    /\ Apply(button_menu(chat, msgs, dash, q, mid, NoTime, editOk, TRUE),
             Pressed(q, MenuTok(mid), NoUser, NoTime))

ButtonBack(q, subset, editOk) ==
    Apply(button_back(chat, msgs, dash, q, subset, editOk),
          Pressed(q, BackTok, NoUser, NoTime))

\* the values the default of chat_data.get("menu_subset", pick_menu_subset())
\* can take where it is used
FreshSubsets ==
    IF "menu_subset" \in DOMAIN chat THEN { chat["menu_subset"] }
    ELSE pick_menu_subset(MENUS_BY_ID)

\* the user is not read and nothing is sent on this path
ButtonSelRedirect(q, text, fresh, editOk) ==
    /\ ~SelAccepts(chat, text)
    /\ Apply(button_sel(chat, msgs, dash, q, text, NoUser, fresh, editOk, TRUE, TRUE),
             Pressed(q, SelTok(text), NoUser, NoTime))

\* pick_menu_subset's value is not used on this path; the second send is
\* reached only when the first succeeds
ButtonSelAccept(q, text, user, editOk, sendOk, sendOk2) ==
    /\ SelAccepts(chat, text)
    /\ sendOk \/ sendOk2
    /\ Apply(button_sel(chat, msgs, dash, q, text, user, <<>>, editOk, sendOk, sendOk2),
             Pressed(q, SelTok(text), user, NoTime))

\* the accepted path with the clock value at the moment of the press kept in
\* the update; the handler does not read the clock
ButtonSelAcceptAt(q, text, user, now, editOk) ==
    /\ SelAccepts(chat, text)
    /\ Apply(button_sel(chat, msgs, dash, q, text, user, <<>>, editOk, TRUE, TRUE),
             Pressed(q, SelTok(text), user, now))

ButtonOther(q, editOk) ==
    Apply(button_other(chat, msgs, dash, q, editOk),
          Pressed(q, OtherTok, NoUser, NoTime))

\* main(): load the catalog, refuse to start on an empty one
Started(menus_raw, dishes_raw) ==
    /\ menus_file = menus_raw
    /\ dishes_file = dishes_raw
    /\ boot = "polling"
    /\ LET loaded == load_data(menus_raw, dishes_raw)
       IN  /\ MENUS_BY_ID = loaded[1]
           /\ DISHES_BY_MENU = loaded[2]
    /\ DOMAIN MENUS_BY_ID # {}
    /\ DOMAIN DISHES_BY_MENU # {}
    /\ chat = EmptyDict
    /\ msgs = <<>>
    /\ dash = <<>>
    /\ ev = Event("init", OtherTok, 0, FALSE, NoUser, NoTime)
    /\ fx = <<>>
    /\ r_times = <<>>
    /\ r_dishes = <<>>
    /\ r_now = 0
    /\ r_slot = 0
    /\ r_out = << <<>>, 0 >>
    /\ r_pc = "off"

Init == Started(MenusRaw1, DishesRaw1)

Next ==
    \/ \E sendOk \in BOOLEAN :
          Len(msgs) < MaxMsgs /\ CmdStart(sendOk)
    \/ \E sendOk \in BOOLEAN :
          Len(msgs) < MaxMsgs /\ OnText(sendOk)
    \/ \E q \in 1..Len(msgs), subset \in pick_menu_subset(MENUS_BY_ID), editOk \in BOOLEAN :
          ButtonList(q, subset, editOk)
    \/ \E q \in 1..Len(msgs), mid \in DOMAIN DISHES_BY_MENU, now \in NowTimes,
          editOk \in BOOLEAN, sendOk \in BOOLEAN :
          Len(msgs) < MaxMsgs /\ ButtonRandom(q, mid, now, editOk, sendOk)
    \/ \E q \in 1..Len(msgs), mid \in DOMAIN DISHES_BY_MENU, now \in NowTimes,
          editOk \in BOOLEAN, sendOk \in BOOLEAN :
          Len(msgs) < MaxMsgs /\ ButtonMenu(q, mid, now, editOk, sendOk)
    \/ \E q \in 1..Len(msgs), mid \in UnknownIds, editOk \in BOOLEAN :
          ButtonMenuUnknown(q, mid, editOk)
    \/ \E q \in 1..Len(msgs), subset \in pick_menu_subset(MENUS_BY_ID), editOk \in BOOLEAN :
          ButtonBack(q, subset, editOk)
    \/ \E q \in 1..Len(msgs), text \in SelTexts, fresh \in FreshSubsets, editOk \in BOOLEAN :
          ButtonSelRedirect(q, text, fresh, editOk)
    \/ \E q \in 1..Len(msgs), text \in SelTexts, user \in Users,
          editOk \in BOOLEAN, sendOk \in BOOLEAN, sendOk2 \in BOOLEAN :
          Len(dash) < MaxDash /\ ButtonSelAccept(q, text, user, editOk, sendOk, sendOk2)
    \/ \E q \in 1..Len(msgs), editOk \in BOOLEAN :
          ButtonOther(q, editOk)

Spec == Init /\ [][Next]_vars

\* The same bot started on the four-menu files, so that pick_menu_subset
\* leaves a menu out; one user walks through the screens (start, list, menu,
\* dish, back) with every gateway outcome.
InitMenus == Started(MenusRaw2, DishesRaw2)

NextMenus ==
    \/ \E sendOk \in BOOLEAN :
          Len(msgs) < MaxMsgs /\ CmdStart(sendOk)
    \/ \E q \in 1..Len(msgs), subset \in pick_menu_subset(MENUS_BY_ID), editOk \in BOOLEAN :
          ButtonList(q, subset, editOk)
    \/ \E q \in 1..Len(msgs), mid \in DOMAIN DISHES_BY_MENU, now \in NowTimes,
          editOk \in BOOLEAN, sendOk \in BOOLEAN :
          Len(msgs) < MaxMsgs /\ ButtonMenu(q, mid, now, editOk, sendOk)
    \/ \E q \in 1..Len(msgs), subset \in pick_menu_subset(MENUS_BY_ID), editOk \in BOOLEAN :
          ButtonBack(q, subset, editOk)
    \/ \E q \in 1..Len(msgs), text \in SelTexts, user \in {101},
          editOk \in BOOLEAN, sendOk \in BOOLEAN, sendOk2 \in BOOLEAN :
          Len(dash) < MaxDash /\ ButtonSelAccept(q, text, user, editOk, sendOk, sendOk2)

SpecMenus == InitMenus /\ [][NextMenus]_vars

\* The same bot on files 1, followed along one thread of three messages:
\* only buttons the pressed message offers are pressed, gateway calls succeed
\* except where a path is about their failure (the reply of on_text, the edit
\* and the send of "m:").
MaxThread == 3      \* stored bot messages per chat in SpecThread
MaxPicks == 2       \* rows of dashboard.json in SpecThread

Genuine(q, data) == Offers(msgs[q], data)

NextThread ==
    \/ Len(msgs) < MaxThread /\ CmdStart(TRUE)
    \/ \E sendOk \in BOOLEAN :
          (sendOk => Len(msgs) < MaxThread) /\ OnText(sendOk)
    \/ \E q \in 1..Len(msgs), subset \in pick_menu_subset(MENUS_BY_ID) :
          Genuine(q, ListTok) /\ ButtonList(q, subset, TRUE)
    \/ \E q \in 1..Len(msgs), mid \in DOMAIN DISHES_BY_MENU, now \in NowTimes :
          Genuine(q, RandomTok) /\ Len(msgs) < MaxThread
          /\ ButtonRandom(q, mid, now, TRUE, TRUE)
    \/ \E q \in 1..Len(msgs), mid \in DOMAIN DISHES_BY_MENU, now \in NowTimes,
          editOk \in BOOLEAN, sendOk \in BOOLEAN :
          Genuine(q, MenuTok(mid)) /\ (sendOk => Len(msgs) < MaxThread)
          /\ ButtonMenu(q, mid, now, editOk, sendOk)
    \/ \E q \in 1..Len(msgs), subset \in pick_menu_subset(MENUS_BY_ID) :
          Genuine(q, BackTok) /\ ButtonBack(q, subset, TRUE)
    \/ \E q \in 1..Len(msgs), text \in SelTexts, fresh \in FreshSubsets :
          Genuine(q, SelTok(text)) /\ ButtonSelRedirect(q, text, fresh, TRUE)
    \/ \E q \in 1..Len(msgs), text \in SelTexts, user \in Users :
          Genuine(q, SelTok(text)) /\ Len(dash) < MaxPicks
          /\ ButtonSelAccept(q, text, user, TRUE, TRUE, TRUE)

SpecThread == Init /\ [][NextThread]_vars

\* The same bot on files 1 with a gateway that never fails: one user presses
\* only buttons the pressed message offers, over four messages, so that a
\* message of an earlier menu selection is still on screen after a later one.
MaxShown == 4       \* stored bot messages per chat in SpecAllOk

NextAllOk ==
    \/ Len(msgs) < MaxShown /\ CmdStart(TRUE)
    \/ \E q \in 1..Len(msgs), subset \in pick_menu_subset(MENUS_BY_ID) :
          Genuine(q, ListTok) /\ ButtonList(q, subset, TRUE)
    \/ \E q \in 1..Len(msgs), mid \in DOMAIN DISHES_BY_MENU, now \in NowTimes :
          Genuine(q, RandomTok) /\ Len(msgs) < MaxShown
          /\ ButtonRandom(q, mid, now, TRUE, TRUE)
    \/ \E q \in 1..Len(msgs), mid \in DOMAIN DISHES_BY_MENU, now \in NowTimes :
          Genuine(q, MenuTok(mid)) /\ Len(msgs) < MaxShown
          /\ ButtonMenu(q, mid, now, TRUE, TRUE)
    \/ \E q \in 1..Len(msgs), subset \in pick_menu_subset(MENUS_BY_ID) :
          Genuine(q, BackTok) /\ ButtonBack(q, subset, TRUE)
    \/ \E q \in 1..Len(msgs), text \in SelTexts, fresh \in FreshSubsets :
          Genuine(q, SelTok(text)) /\ ButtonSelRedirect(q, text, fresh, TRUE)
    \/ \E q \in 1..Len(msgs), text \in SelTexts, user \in {101} :
          Genuine(q, SelTok(text)) /\ Len(dash) < MaxPicks
          /\ ButtonSelAccept(q, text, user, TRUE, TRUE, TRUE)

SpecAllOk == Init /\ [][NextAllOk]_vars

\* The same bot on files 1, followed from one dish list to the next: one user
\* presses only buttons the pressed message offers, at any time of day; the
\* gateway fails only on the edit that turns the accepted list into a card,
\* so that the list keeps its buttons.
NextPicks ==
    \/ Len(msgs) < MaxThread /\ CmdStart(TRUE)
    \/ \E q \in 1..Len(msgs), subset \in pick_menu_subset(MENUS_BY_ID) :
          Genuine(q, ListTok) /\ ButtonList(q, subset, TRUE)
    \/ \E q \in 1..Len(msgs), mid \in DOMAIN DISHES_BY_MENU, now \in NowTimes :
          Genuine(q, RandomTok) /\ Len(msgs) < MaxThread
          /\ ButtonRandom(q, mid, now, TRUE, TRUE)
    \/ \E q \in 1..Len(msgs), mid \in DOMAIN DISHES_BY_MENU, now \in NowTimes :
          Genuine(q, MenuTok(mid)) /\ Len(msgs) < MaxThread
          /\ ButtonMenu(q, mid, now, TRUE, TRUE)
    \/ \E q \in 1..Len(msgs), subset \in pick_menu_subset(MENUS_BY_ID) :
          Genuine(q, BackTok) /\ ButtonBack(q, subset, TRUE)
    \/ \E q \in 1..Len(msgs), text \in SelTexts, fresh \in FreshSubsets :
          Genuine(q, SelTok(text)) /\ ButtonSelRedirect(q, text, fresh, TRUE)
    \/ \E q \in 1..Len(msgs), text \in SelTexts, now \in NowTimes, editOk \in BOOLEAN :
          Genuine(q, SelTok(text)) /\ Len(dash) < MaxPicks
          /\ ButtonSelAcceptAt(q, text, 101, now, editOk)

SpecPicks == Init /\ [][NextPicks]_vars

\* The dashboard on its own: selections of any dish of the catalog by the
\* users of the chat are recorded as the accepted "sel:" branch records them
\* (main.py:568-570), and users ask for their history.
MaxHistory == 3     \* rows of dashboard.json in SpecDashboard

RecordSelection(user, mid, k) ==
    LET dish == DISHES_BY_MENU[mid][k]
        from_menu == DictGet(MENUS_BY_ID, dish.menu_id, dish.menu_name)
    IN  Apply(Result(chat, msgs,
                     append_dashboard_entry(dash, user, dish.challenge_id, dish.dish, from_menu),
                     << DashFx >>),
              Event("record", OtherTok, 0, FALSE, user, NoTime))

CmdDashboard(user, sendOk) ==
    Apply(cmd_dashboard(chat, msgs, dash, user, sendOk),
          Event("dashboard", OtherTok, 0, FALSE, user, NoTime))

NextDashboard ==
    \/ \E user \in Users, mid \in DOMAIN DISHES_BY_MENU :
          \E k \in 1..Len(DISHES_BY_MENU[mid]) :
             Len(dash) < MaxHistory /\ RecordSelection(user, mid, k)
    \/ \E user \in Users, sendOk \in BOOLEAN :
          CmdDashboard(user, sendOk)

SpecDashboard == Init /\ [][NextDashboard]_vars

-----------------------------------------------------------------------------
(* The resolver on its own: the two functions applied to bounded inputs *)

Times == 0..MaxT

\* lists of length at most n over S
ListsUpTo(S, n) == UNION {[1..k -> S] : k \in 0..n}

HarnessDishes == {Dish("M", "Menu", name, "c", t) : name \in {"d1", "d2"}, t \in Times}

InitResolver ==
    /\ menus_file = <<>>
    /\ dishes_file = <<>>
    /\ boot = "load"
    /\ MENUS_BY_ID = EmptyDict
    /\ DISHES_BY_MENU = EmptyDict
    /\ chat = EmptyDict
    /\ msgs = <<>>
    /\ dash = <<>>
    /\ ev = Event("init", OtherTok, 0, FALSE, NoUser, NoTime)
    /\ fx = <<>>
    /\ \/ r_times \in ListsUpTo(Times, MaxLen) /\ r_dishes = <<>>
       \/ r_times = <<>> /\ r_dishes \in ListsUpTo(HarnessDishes, MaxLen)
    /\ r_now = 0
    /\ r_slot = 0
    /\ r_out = << <<>>, 0 >>
    /\ r_pc = "idle"

CallNextSlot(t) ==
    /\ r_pc' = "next_slot_time"
    /\ r_now' = t
    /\ r_slot' = next_slot_time(t, r_times)
    /\ UNCHANGED <<r_times, r_dishes, r_out>>
    /\ UNCHANGED navVars
    /\ UNCHANGED fileVars

CallFilter(t) ==
    /\ r_pc' = "filter"
    /\ r_now' = t
    /\ r_out' = filter_dishes_for_next_slot_baseline(r_dishes, t)
    /\ UNCHANGED <<r_times, r_dishes, r_slot>>
    /\ UNCHANGED navVars
    /\ UNCHANGED fileVars

NextResolver ==
    \/ \E t \in Times : CallNextSlot(t)
    \/ \E t \in Times : CallFilter(t)

SpecResolver == InitResolver /\ [][NextResolver]_vars

-----------------------------------------------------------------------------
(* The loader on its own: main() started on bounded input files *)

MaxMenuRows == 2    \* rows of Menulist.json
MaxDishRows == 2    \* rows of MenuAndDishes.json

\* menu rows: two well-formed, one without id, one without name
MenuRows ==
    { MenuRow("A", "Alpha"), MenuRow("B", "Beta"), MenuRow("", "NoId"), MenuRow("N", "") }

\* "Before Timing" texts: none, a 12-hour time, an hour out of range
BeforeTexts == { EmptyText, RawTime(11, 0, 0 - 1, "AM"), RawTime(25, 0, 0 - 1, "") }

\* dish rows of a listed menu, of an unlisted menu and without menu id,
\* with and without a name
DishRows ==
    { DishRow(mid, Missing, name, "c", before) :
        mid \in {"", "A", "E"}, name \in {"", "d"}, before \in BeforeTexts }

InitLoader ==
    /\ menus_file \in ListsUpTo(MenuRows, MaxMenuRows)
    /\ dishes_file \in ListsUpTo(DishRows, MaxDishRows)
    /\ boot = "load"
    /\ MENUS_BY_ID = EmptyDict
    /\ DISHES_BY_MENU = EmptyDict
    /\ chat = EmptyDict
    /\ msgs = <<>>
    /\ dash = <<>>
    /\ ev = Event("init", OtherTok, 0, FALSE, NoUser, NoTime)
    /\ fx = <<>>
    /\ r_times = <<>>
    /\ r_dishes = <<>>
    /\ r_now = 0
    /\ r_slot = 0
    /\ r_out = << <<>>, 0 >>
    /\ r_pc = "off"

\* main() up to run_polling: the globals are assigned, then an empty catalog
\* raises RuntimeError
Main ==
    /\ boot = "load"
    /\ LET loaded == load_data(menus_file, dishes_file)
       IN  /\ MENUS_BY_ID' = loaded[1]
           /\ DISHES_BY_MENU' = loaded[2]
           /\ boot' = IF DOMAIN loaded[1] = {} \/ DOMAIN loaded[2] = {}
                      THEN "exit" ELSE "polling"
    /\ UNCHANGED <<menus_file, dishes_file, chat, msgs, dash, ev, fx>>
    /\ UNCHANGED resVars

NextLoader == Main

SpecLoader == InitLoader /\ [][NextLoader]_vars

-----------------------------------------------------------------------------
(* Claims about the resolver, under SpecResolver *)

\* b is the bucket of the cutoff set T at time t: the least element of T
\* after t, or the least element of T when none is after t
IsBucket(b, T, t) ==
    LET later == {x \in T : x > t}
    IN  /\ b \in T
        /\ later # {} => (b \in later /\ \A x \in later : b <= x)
        /\ later = {} => \A x \in T : b <= x

\* the k-th smallest element of a set of indices
KthIndex(I, k) == CHOOSE i \in I : Cardinality({j \in I : j < i}) = k - 1

\* Scenario A of the specification: cutoffs 11:00, 14:00, 20:00
ScenarioA ==
    LET T == << HMS(11, 0, 0), HMS(14, 0, 0), HMS(20, 0, 0) >>
    IN  /\ next_slot_time(HMS(10, 30, 0), T) = HMS(11, 0, 0)
        /\ next_slot_time(HMS(15, 0, 0), T) = HMS(20, 0, 0)
        /\ next_slot_time(HMS(21, 0, 0), T) = HMS(11, 0, 0)

\* C1: for every non-empty list of cutoff times and every time of day t,
\* next_slot_time returns the least cutoff strictly after t, or the least
\* cutoff of all when none is after t; the result is one of the cutoffs; a
\* cutoff equal to t is chosen only by the wrap-around.
C1_NextSlotIsBucket ==
    /\ (r_pc = "next_slot_time" /\ r_times # <<>>)
          => IsBucket(r_slot, Range(r_times), r_now)
    /\ r_pc = "next_slot_time" => ScenarioA

\* C1 witness: t is itself a cutoff, a later cutoff exists and is returned
C1_Witness ==
    /\ r_pc = "next_slot_time"
    /\ r_now \in Range(r_times)
    /\ r_slot > r_now
    /\ \E x \in Range(r_times) : x < r_now

\* C2: the filter returns exactly the dishes whose cutoff is the resolved
\* bucket, none omitted, none added, in the order of the input list.
C2_FilterIsBucketSubsequence ==
    r_pc = "filter" =>
        LET filtered == r_out[1]
            target == r_out[2]
            I == {i \in 1..Len(r_dishes) : r_dishes[i].before_time = target}
        IN  /\ r_dishes # <<>> =>
                  IsBucket(target, {r_dishes[i].before_time : i \in 1..Len(r_dishes)}, r_now)
            /\ Len(filtered) = Cardinality(I)
            /\ \A k \in 1..Len(filtered) : filtered[k] = r_dishes[KthIndex(I, k)]

\* C2 witness: two dishes of the bucket with a dish of another bucket between them
C2_Witness ==
    /\ r_pc = "filter"
    /\ Len(r_dishes) = 3
    /\ r_out[1] = << r_dishes[1], r_dishes[3] >>
    /\ r_dishes[1] # r_dishes[3]
    /\ r_dishes[2].before_time # r_out[2]

-----------------------------------------------------------------------------
(* Claims about the chat, under Spec and SpecMenus *)

\* the session fields as the specification names them
HasMenu == "menu_id" \in DOMAIN chat
HasDishes == "cards_dishes" \in DOMAIN chat /\ chat["cards_dishes"] # <<>>
HasListRef == "list_msg_id" \in DOMAIN chat /\ chat["list_msg_id"] # NoneId

\* the last update was a press of a button with this tag
PressedTag(tag) == ev.kind = "button" /\ ev.data.tag = tag

\* s is a duplicate-free list of at most 3 ids of menus_by_id
ValidSubset(s, menus_by_id) ==
    /\ Len(s) <= 3
    /\ \A i \in 1..Len(s) : s[i] \in DOMAIN menus_by_id
    /\ \A i, j \in 1..Len(s) : i # j => s[i] # s[j]

\* C3: in every reachable session state, whatever tokens were handled and
\* whichever gateway calls failed, visible dishes and the dish-list message
\* reference are both populated or both empty.
C3_VisiblePairedWithRef == HasDishes <=> HasListRef

\* C3 witness: both are populated in a state left by a handler that raised
C3_Witness == HasDishes /\ HasListRef /\ Raised(fx)

\* C4 (as claimed): a select-dish token that is not accepted (index out of
\* range, no selected menu, or no visible dishes) renders the menu list,
\* appends no dashboard row, sends no challenge and raises no error.
C4_RejectedSelRendersList ==
    [][ (ev'.kind = "button" /\ ev'.data.tag = "sel" /\ IsIntText(ev'.data.arg)
            /\ ~SelAccepts(chat, ev'.data.arg))
        => /\ Has(fx', "edit", "menulist")
           /\ dash' = dash
           /\ ~Has(fx', "send", "challenge")
           /\ ~Raised(fx') ]_vars

\* C5: after "show menu list" the session has no selected menu, no visible
\* dishes and no dish-list reference, and menu_subset is a duplicate-free
\* list of at most 3 catalog menu ids; so also after a second one in a row.
C5_ListResetsSession ==
    (ev.kind = "button" /\ ev.data = ListTok)
    => /\ ~HasMenu
       /\ "cards_dishes" \notin DOMAIN chat
       /\ "list_msg_id" \notin DOMAIN chat
       /\ "menu_subset" \in DOMAIN chat
       /\ ValidSubset(chat["menu_subset"], MENUS_BY_ID)

\* C5 witness: "show menu list" handled after a dish was selected, on a
\* catalog of more than 3 menus, while an earlier menu list is still shown
C5_Witness ==
    /\ ev.kind = "button" /\ ev.data = ListTok
    /\ Cardinality(DOMAIN MENUS_BY_ID) > 3
    /\ Len(chat["menu_subset"]) = 3
    /\ Len(dash) > 0
    /\ \E i \in 1..Len(msgs) : i # ev.msg /\ msgs[i].kind = "menulist"

\* C6: "select menu:<id>" with an id that names no loaded menu leaves every
\* session field as it was, sends no dish list, appends no dashboard row, and
\* does nothing but try to show the "unavailable" notice.
C6_UnknownMenuChangesNothing ==
    [][ (ev'.kind = "button" /\ ev'.data.tag = "m"
            /\ ev'.data.arg \notin DOMAIN DISHES_BY_MENU)
        => /\ chat' = chat
           /\ dash' = dash
           /\ Len(msgs') = Len(msgs)
           /\ ~Has(fx', "send", "dishlist")
           /\ Has(fx', "edit", "unavailable") \/ Has(fx', "edit_failed", "unavailable")
           /\ \A i \in 1..Len(fx') :
                 fx'[i].op \in {"edit", "edit_failed", "raise", "try_send"} ]_vars

\* C6 witness: the notice replaced a message while a menu and its dishes
\* stay selected
C6_Witness ==
    /\ PressedTag("m")
    /\ ev.data.arg \notin DOMAIN DISHES_BY_MENU
    /\ Has(fx, "edit", "unavailable")
    /\ HasMenu /\ HasDishes /\ HasListRef
    /\ "menu_subset" \in DOMAIN chat

\* position of the first effect of this kind in f, 0 if none
FirstFx(f, op, kind) ==
    IF \E i \in 1..Len(f) : f[i].op = op /\ f[i].what.kind = kind
    THEN CHOOSE i \in 1..Len(f) :
            /\ f[i].op = op /\ f[i].what.kind = kind
            /\ \A j \in 1..(i - 1) : ~(f[j].op = op /\ f[j].what.kind = kind)
    ELSE 0

CountFx(f, op) == Cardinality({i \in 1..Len(f) : f[i].op = op})

\* C7: an accepted select-dish token edits the dish-list message to the card
\* of the chosen dish, empties the visible dishes and the dish-list
\* reference, appends exactly one dashboard row with the pressing user and
\* the dish's challenge id, name and menu, and sends the challenge only
\* after the row is appended.
C7_AcceptedSelRecordsThenSends ==
    [][ (ev'.kind = "button" /\ ev'.data.tag = "sel" /\ SelAccepts(chat, ev'.data.arg))
        => LET idx == IF IsIntText(ev'.data.arg) THEN PyInt(ev'.data.arg) ELSE 0
               dish == chat["cards_dishes"][idx + 1]
               ref == chat["list_msg_id"]
               menu == IF dish.menu_id \in DOMAIN MENUS_BY_ID
                       THEN MENUS_BY_ID[dish.menu_id] ELSE dish.menu_name
               sends == {i \in 1..Len(fx') :
                            fx'[i].op \in {"send", "send_failed"}
                            /\ fx'[i].what.kind = "challenge"}
           IN  /\ fx'[1].op \in {"edit", "edit_failed"}
               /\ fx'[1].ref = ref
               /\ fx'[1].what = CardMsg(dish)
               /\ fx'[1].op = "edit" => msgs'[ref] = [kind |-> "card", dishes |-> <<>>]
               /\ chat'["cards_dishes"] = <<>>
               /\ chat'["list_msg_id"] = NoneId
               /\ Len(dash') = Len(dash) + 1
               /\ \A i \in 1..Len(dash) : dash'[i] = dash[i]
               /\ dash'[Len(dash')] =
                     [user_id |-> ev'.user, challenge_id |-> dish.challenge_id,
                      dish |-> dish.dish, menu |-> menu]
               /\ CountFx(fx', "dash") = 1
               /\ sends # {}
               /\ \A i \in sends :
                     /\ fx'[i].what = ChallengeMsg(dish)
                     /\ FirstFx(fx', "dash", "append") < i
                     /\ 1 < FirstFx(fx', "dash", "append") ]_vars

\* C7 witness: user 202's dish is recorded and its challenge sent
C7_Witness ==
    /\ PressedTag("sel")
    /\ ev.user = 202
    /\ Has(fx, "dash", "append") /\ Has(fx, "send", "challenge")
    /\ Len(dash) = 1 /\ dash[1].user_id = 202
    /\ ~HasDishes /\ ~HasListRef

\* C8: after "random menu" or "select menu:<id>" of a loaded menu with a
\* successful send, the selected menu is the chosen id (any key of the dish
\* catalog for random), the visible dishes are the resolver's output for
\* that menu at that time, and the dish-list reference is the id of the
\* message just sent, not of the menu-list message.
C8_MenuSelectionShowsBucket ==
    [][ (ev'.kind = "button" /\ ev'.data.tag \in {"r", "m"} /\ Has(fx', "send", "dishlist"))
        => LET mid == chat'["menu_id"]
               all == DISHES_BY_MENU[mid]
               T == {all[i].before_time : i \in 1..Len(all)}
               I == {i \in 1..Len(all) : IsBucket(all[i].before_time, T, ev'.now)}
               shown == chat'["cards_dishes"]
               ref == chat'["list_msg_id"]
           IN  /\ mid \in DOMAIN DISHES_BY_MENU
               /\ ev'.data.tag = "m" => mid = ev'.data.arg
               /\ Len(shown) = Cardinality(I)
               /\ \A k \in 1..Len(shown) : shown[k] = all[KthIndex(I, k)]
               /\ ref \notin 1..Len(msgs)
               /\ ref = Len(msgs')
               /\ msgs'[ref] = [kind |-> "dishlist", dishes |-> shown]
               /\ ref # ev'.msg
               /\ "last_menu_list_msg_id" \in DOMAIN chat'
                     => ref # chat'["last_menu_list_msg_id"] ]_vars

\* C8 witness: "random menu" chose a menu that is not in menu_subset and its
\* bucket leaves a dish of the menu out
C8_Witness ==
    /\ PressedTag("r")
    /\ Has(fx, "send", "dishlist")
    /\ "menu_subset" \in DOMAIN chat
    /\ chat["menu_id"] \notin Range(chat["menu_subset"])
    /\ HasDishes /\ chat["list_msg_id"] = Len(msgs)

\* C9: after "back", whether or not the edit succeeds, the session has no
\* selected menu, no visible dishes and no dish-list reference, and
\* menu_subset is a sample of at most 3 catalog menu ids.
C9_BackResetsSelection ==
    (ev.kind = "button" /\ ev.data = BackTok)
    => /\ ~HasMenu
       /\ "cards_dishes" \notin DOMAIN chat
       /\ "list_msg_id" \notin DOMAIN chat
       /\ "menu_subset" \in DOMAIN chat
       /\ ValidSubset(chat["menu_subset"], MENUS_BY_ID)

\* C9 witness: "back" pressed on a dish list, the edit failed, a menu of the
\* catalog is left out of the sample
C9_Witness ==
    /\ ev.kind = "button" /\ ev.data = BackTok /\ ev.had
    /\ Has(fx, "edit_failed", "menulist")
    /\ Len(chat["menu_subset"]) = 3
    /\ Cardinality(DOMAIN MENUS_BY_ID) > 3

\* C10 (as claimed): whenever a handler renders the top-level menu list,
\* the session has no selected menu, no visible dishes and no dish-list
\* reference afterwards.
C10_MenuListMeansReset ==
    (ev.kind = "button" /\ Has(fx, "edit", "menulist"))
    => ~HasMenu /\ ~HasDishes /\ ~HasListRef

-----------------------------------------------------------------------------
(* Claims about the menu list and about gateway failures, under Spec *)

\* the samples the menu lists rendered by the handler that left f were built from
RenderedSubsets(f) ==
    {f[i].what.subset : i \in {j \in 1..Len(f) : f[j].op = "edit" /\ f[j].what.kind = "menulist"}}

\* C11 (as claimed): whenever a handler shows the top-level menu list ("show
\* menu list", "back", or the redirect of a rejected "select dish"), the
\* session's menu_subset afterwards holds the menu ids offered in the list
\* just rendered.
C11_MenuListStoresItsSubset ==
    (ev.kind = "button" /\ Has(fx, "edit", "menulist"))
    => /\ "menu_subset" \in DOMAIN chat
       /\ \A s \in RenderedSubsets(fx) : Range(s) = Range(chat["menu_subset"])

\* C12 (as claimed): a failed gateway edit is caught inside the handler and
\* logged, and the exception never reaches on_error.
C12_EditFailureCaughtAndLogged ==
    \A i \in 1..Len(fx) :
        fx[i].op = "edit_failed"
        => /\ i < Len(fx)
           /\ fx[i + 1].op # "raise"
           /\ fx[i + 1].op = "warn"

-----------------------------------------------------------------------------
(* Claims about one thread of messages, under SpecThread *)

\* C13: free-form text, in whatever session state it arrives, leaves every
\* field of the session (selected menu, visible dishes, both message
\* references, menu subset) and the dashboard as they were and edits no
\* message; the handler only logs the event and replies with the prompt.
C13_FreeTextChangesNothing ==
    [][ ev'.kind = "text"
        => /\ chat' = chat
           /\ dash' = dash
           /\ \A i \in 1..Len(msgs) : msgs'[i] = msgs[i]
           /\ fx'[1] = Log("free_text_blocked")
           /\ fx'[2].op \in {"send", "send_failed"}
           /\ fx'[2].what = PromptMsg
           /\ \A i \in 1..Len(fx') : fx'[i].op \notin {"edit", "edit_failed", "dash"} ]_vars

\* C13 witness: the prompt was sent while a menu, its dishes, both message
\* references and a menu subset were set
C13_Witness ==
    /\ ev.kind = "text"
    /\ Has(fx, "send", "prompt")
    /\ HasMenu /\ HasDishes /\ HasListRef
    /\ "menu_subset" \in DOMAIN chat
    /\ Truthy(chat, "last_menu_list_msg_id")

-----------------------------------------------------------------------------
(* Claims about the catalog loader, under SpecLoader *)

\* a "Before Timing" text one of the four formats reads: 12-hour with AM or
\* PM, or 24-hour, with or without seconds
Parseable(v) ==
    /\ v # EmptyText
    /\ v.m \in 0..59
    /\ v.s = 0 - 1 \/ v.s \in 0..59
    /\ \/ v.p \in {"AM", "PM"} /\ v.h \in 1..12
       \/ v.p = "" /\ v.h \in 0..23

\* the rows of dishes_file that are well-formed dishes of menu mid
GoodRows(mid) ==
    {i \in 1..Len(dishes_file) :
        /\ dishes_file[i].mid = mid
        /\ dishes_file[i].dish # ""
        /\ Parseable(dishes_file[i].before)}

\* C14: after the catalog is loaded, the dish list of every menu is exactly
\* the file's rows of that menu that have a name and a parseable cutoff time,
\* in file order, so no dish without a parseable time, a name or a menu id is
\* in any list; a menu without such a row is in neither dict; every menu that
\* remains has at least one dish.
C14_LoadedCatalogIsClean ==
    boot # "load" =>
        /\ \A mid \in DOMAIN DISHES_BY_MENU :
              LET ds == DISHES_BY_MENU[mid]
                  I == GoodRows(mid)
              IN  /\ mid # ""
                  /\ ds # <<>>
                  /\ Len(ds) = Cardinality(I)
                  /\ \A k \in 1..Len(ds) :
                        /\ ds[k].menu_id = mid
                        /\ ds[k].dish = dishes_file[KthIndex(I, k)].dish
                        /\ ds[k].dish # ""
                        /\ ds[k].before_time # NoTime
                        /\ ds[k].before_time \in 0..(HMS(24, 0, 0) - 1)
        /\ \A mid \in DOMAIN MENUS_BY_ID :
              mid \in DOMAIN DISHES_BY_MENU /\ Len(DISHES_BY_MENU[mid]) >= 1
        /\ \A i \in 1..Len(menus_file) :
              GoodRows(menus_file[i].mid) = {}
              => /\ menus_file[i].mid \notin DOMAIN MENUS_BY_ID
                 /\ menus_file[i].mid \notin DOMAIN DISHES_BY_MENU

\* C14 witness: the bot starts on files in which menu A has a dish with a
\* parseable time and a dish without one, and menu B has no dish: A keeps
\* one dish, B is removed
C14_Witness ==
    /\ boot = "polling"
    /\ Len(dishes_file) = 2
    /\ \E i \in 1..2 : dishes_file[i].mid = "A" /\ ~Parseable(dishes_file[i].before)
                       /\ dishes_file[i].dish # ""
    /\ "A" \in DOMAIN MENUS_BY_ID
    /\ Len(DISHES_BY_MENU["A"]) = 1
    /\ \E i \in 1..Len(menus_file) : menus_file[i] = MenuRow("B", "Beta")
    /\ "B" \notin DOMAIN MENUS_BY_ID

-----------------------------------------------------------------------------
(* Claims about the dishes on screen, under SpecThread *)

\* C15 (as claimed): in every reachable session state, also after a failed
\* send of a new dish list, if a menu is selected and dishes are visible then
\* every visible dish is a dish of the selected menu.
C15_VisibleDishesOfSelectedMenu ==
    (HasMenu /\ HasDishes)
    => \A i \in 1..Len(chat["cards_dishes"]) :
          chat["cards_dishes"][i].menu_id = chat["menu_id"]

-----------------------------------------------------------------------------
(* Claims about messages left on screen, under SpecAllOk *)

\* no gateway call of the handler that left f failed
AllSucceeded(f) ==
    \A i \in 1..Len(f) : f[i].op \notin {"edit_failed", "send_failed", "raise"}

\* C16 (as claimed): when "random menu" is pressed on a message that shows
\* the menu list and every gateway call succeeds, that message is collapsed
\* to the name of the chosen menu and no longer offers menu buttons, also
\* when the list was rendered by a select-dish redirect or by "back".
C16_RandomCollapsesPressedList ==
    [][ (ev'.kind = "button" /\ ev'.data = RandomTok /\ ev'.had /\ AllSucceeded(fx'))
        => /\ msgs'[ev'.msg].kind = "selected"
           /\ ~Offers(msgs'[ev'.msg], RandomTok)
           /\ \E i \in 1..Len(fx') :
                 /\ fx'[i].op = "edit"
                 /\ fx'[i].ref = ev'.msg
                 /\ fx'[i].what =
                       SelectedMsg(DictGet(MENUS_BY_ID, chat'["menu_id"], "Selected Menu")) ]_vars

-----------------------------------------------------------------------------
(* Claims about rejected tokens, under Spec *)

\* C17 (as claimed): a select-dish token whose index is beyond the visible
\* dishes (index 2 with 2 dishes visible) redirects to the menu list and a
\* log entry recording the event is produced; stated for the case that the
\* gateway does not fail.
C17_OutOfRangeSelIsLogged ==
    [][ (/\ ev'.kind = "button" /\ ev'.data.tag = "sel" /\ IsIntText(ev'.data.arg)
         /\ HasMenu /\ HasDishes /\ HasListRef
         /\ PyInt(ev'.data.arg) >= Len(chat["cards_dishes"])
         /\ AllSucceeded(fx'))
        => /\ Has(fx', "edit", "menulist")
           /\ \E i \in 1..Len(fx') : fx'[i].op \in {"log", "warn"} ]_vars

\* C18 (as claimed): after "select menu:<id>" with an id that names no loaded
\* menu, pressed on a message that shows the menu list, that message still
\* shows the list and offers its menu buttons.
C18_UnknownMenuKeepsList ==
    [][ (/\ ev'.kind = "button" /\ ev'.data.tag = "m"
         /\ ev'.data.arg \notin DOMAIN DISHES_BY_MENU
         /\ ev'.had /\ AllSucceeded(fx'))
        => /\ msgs'[ev'.msg].kind = "menulist"
           /\ Offers(msgs'[ev'.msg], RandomTok) ]_vars

-----------------------------------------------------------------------------
(* Claims about the dashboard, under SpecDashboard *)

\* the rows of user u in rows, in their order
OwnRows(rows, u) ==
    LET I == {i \in 1..Len(rows) : rows[i].user_id = u}
    IN  [k \in 1..Cardinality(I) |-> rows[KthIndex(I, k)]]

\* the rows the dashboard reply of the handler that left f was built from
RepliedRows(f) ==
    IF \E i \in 1..Len(f) : f[i].op \in {"send", "send_failed"} /\ f[i].what.kind = "dashboard"
    THEN f[CHOOSE i \in 1..Len(f) :
             f[i].op \in {"send", "send_failed"} /\ f[i].what.kind = "dashboard"].what.dishes
    ELSE <<>>

\* C19: recording a selection appends one row of the selecting user and keeps
\* every stored row in place; the history read for user u is exactly the
\* rows recorded for u, in the order they were recorded, with no row of
\* another user; reading changes nothing.
C19_HistoryIsOwnRowsInOrder ==
    [][ /\ ev'.kind = "record"
           => /\ Len(dash') = Len(dash) + 1
              /\ \A i \in 1..Len(dash) : dash'[i] = dash[i]
              /\ dash'[Len(dash')].user_id = ev'.user
              /\ \A u \in Users :
                    OwnRows(dash', u) =
                       IF u = ev'.user THEN Append(OwnRows(dash, u), dash'[Len(dash')])
                       ELSE OwnRows(dash, u)
        /\ ev'.kind = "dashboard"
           => /\ dash' = dash
              /\ RepliedRows(fx') = OwnRows(dash, ev'.user)
              /\ \A i \in 1..Len(RepliedRows(fx')) : RepliedRows(fx')[i].user_id = ev'.user
              /\ OwnRows(dash, ev'.user) = <<>> <=>
                    (Has(fx', "send", "dashboard_empty")
                     \/ Has(fx', "send_failed", "dashboard_empty")) ]_vars

\* C19 witness: user 101 reads two rows of their own that have a row of user
\* 202 between them
C19_Witness ==
    /\ ev.kind = "dashboard" /\ ev.user = 101
    /\ Len(dash) = 3
    /\ dash[1].user_id = 101 /\ dash[2].user_id = 202 /\ dash[3].user_id = 101
    /\ dash[1] # dash[3]
    /\ Has(fx, "send", "dashboard")
    /\ RepliedRows(fx) = << dash[1], dash[3] >>

-----------------------------------------------------------------------------
(* Claims about the dish a press selects, under SpecAllOk *)

\* C20 (as claimed): when a select-dish button is pressed and accepted, the
\* dish recorded in the dashboard and sent as the challenge is the dish the
\* pressed message displays at that index, also when the pressed message is
\* a dish list of an earlier menu selection.
C20_AcceptedDishIsTheOneDisplayed ==
    [][ (/\ ev'.kind = "button" /\ ev'.data.tag = "sel" /\ ev'.had
         /\ SelAccepts(chat, ev'.data.arg))
        => LET shown == msgs[ev'.msg].dishes[SelIndex(ev'.data.arg) + 1]
           IN  /\ dash'[Len(dash')].dish = shown.dish
               /\ dash'[Len(dash')].challenge_id = shown.challenge_id
               /\ \A i \in 1..Len(fx') :
                     (fx'[i].op = "send" /\ fx'[i].what.kind = "challenge")
                     => fx'[i].what = ChallengeMsg(shown) ]_vars

-----------------------------------------------------------------------------
(* Claims about the index of a select-dish token, under Spec *)

\* C21 (as claimed): a select-dish token whose index part is not an integer
\* fails validation: the menu list is rendered on the pressed message, no
\* dish is selected (no card, no challenge) and no dashboard row is
\* appended; stated for the case that the gateway does not fail.
C21_NonIntegerIndexIsRejected ==
    [][ (/\ ev'.kind = "button" /\ ev'.data.tag = "sel"
         /\ ~IsIntText(ev'.data.arg)
         /\ AllSucceeded(fx'))
        => /\ dash' = dash
           /\ Has(fx', "edit", "menulist")
           /\ ~Has(fx', "edit", "card")
           /\ ~Has(fx', "send", "challenge") ]_vars

-----------------------------------------------------------------------------
(* Claims about repeated selections, under SpecPicks *)

\* C22: a dashboard row is appended only by a select-dish token handled
\* while dishes are visible, one row at a time, and that handler leaves no
\* dish visible; dishes become visible only by a menu selection whose dish
\* list is sent; a select-dish token handled while no dish is visible is
\* redirected and records nothing.  So between two menu selections whose
\* lists were sent at most one row is appended.
C22_OneRecordPerDishList ==
    [][ /\ dash' # dash
           => /\ ev'.kind = "button" /\ ev'.data.tag = "sel"
              /\ HasDishes /\ HasListRef
              /\ Len(dash') = Len(dash) + 1
              /\ \A i \in 1..Len(dash) : dash'[i] = dash[i]
              /\ ~HasDishes' /\ ~HasListRef'
        /\ (HasDishes' /\ (~HasDishes \/ chat'["cards_dishes"] # chat["cards_dishes"]))
           => /\ ev'.kind = "button" /\ ev'.data.tag \in {"r", "m"}
              /\ Has(fx', "send", "dishlist")
        /\ (ev'.kind = "button" /\ ev'.data.tag = "sel" /\ ~HasDishes)
           => /\ dash' = dash
              /\ Has(fx', "edit", "menulist") \/ Has(fx', "edit_failed", "menulist")
              /\ ~Has(fx', "send", "challenge") ]_vars

\* C22 witness: a dish was accepted while the edit of its list failed, so
\* the list kept its buttons; the same button pressed again was redirected
\* and the dashboard, which has room for another row, still has one
C22_Witness ==
    /\ PressedTag("sel") /\ ev.had
    /\ Has(fx, "edit", "menulist")
    /\ Len(dash) = 1 /\ Len(dash) < MaxPicks
    /\ HasMenu /\ ~HasDishes
    /\ "cards_dishes" \in DOMAIN chat
    /\ Cardinality({i \in 1..Len(msgs) : msgs[i].kind \in {"dishlist", "card"}}) = 0

-----------------------------------------------------------------------------
(* Claims about the dish list of a catalog menu, under Spec *)

LastSecond == HMS(23, 59, 59)

\* times of day around every cutoff of the loaded catalog, and the day's ends
ProbeTimes ==
    LET cutoffs == UNION {{DISHES_BY_MENU[mid][i].before_time :
                              i \in 1..Len(DISHES_BY_MENU[mid])} : mid \in DOMAIN DISHES_BY_MENU}
    IN  ({Midnight, LastSecond} \cup cutoffs
            \cup {c - 1 : c \in cutoffs} \cup {c + 1 : c \in cutoffs}) \cap (Midnight..LastSecond)

\* C23: for every menu of the loaded catalog and every time of day the
\* resolver returns a non-empty list of dishes of one cutoff; the "no dishes
\* available" message is never sent; after every menu selection whose dish
\* list was sent the visible dishes are non-empty, share one cutoff time and
\* are shown on the referenced dish-list message.
C23_CatalogMenuAlwaysHasDishes ==
    /\ \A mid \in DOMAIN DISHES_BY_MENU : \A t \in ProbeTimes :
          LET out == filter_dishes_for_next_slot_baseline(DISHES_BY_MENU[mid], t)
          IN  /\ out[1] # <<>>
              /\ \A i \in 1..Len(out[1]) : out[1][i].before_time = out[2]
    /\ ~Has(fx, "send", "nodishes") /\ ~Has(fx, "send_failed", "nodishes")
    /\ (/\ ev.kind = "button"
        /\ \/ ev.data.tag = "r"
           \/ ev.data.tag = "m" /\ ev.data.arg \in DOMAIN DISHES_BY_MENU
        /\ AllSucceeded(fx))
       => /\ Has(fx, "send", "dishlist")
          /\ HasDishes /\ HasListRef
          /\ \A i, j \in 1..Len(chat["cards_dishes"]) :
                chat["cards_dishes"][i].before_time = chat["cards_dishes"][j].before_time
          /\ msgs[chat["list_msg_id"]] =
                [kind |-> "dishlist", dishes |-> chat["cards_dishes"]]

\* C23 witness: a menu selected after its last cutoff of the day shows the
\* two dishes of its earliest cutoff
C23_Witness ==
    /\ PressedTag("m")
    /\ Has(fx, "send", "dishlist")
    /\ \A i \in 1..Len(DISHES_BY_MENU[chat["menu_id"]]) :
          DISHES_BY_MENU[chat["menu_id"]][i].before_time < ev.now
    /\ HasDishes /\ Len(chat["cards_dishes"]) = 2

\* C24: after the catalog is loaded the menu ids that have dishes are exactly
\* the menu ids of the menu catalog, and the menu id that "random menu" or
\* "select menu" stores in the chat is the id of a named catalog menu.
C24_DishMenusAreCatalogMenus ==
    /\ DOMAIN DISHES_BY_MENU = DOMAIN MENUS_BY_ID
    /\ ((PressedTag("r") \/ PressedTag("m")) /\ HasMenu)
       => chat["menu_id"] \in DOMAIN MENUS_BY_ID

-----------------------------------------------------------------------------
(* Claims about the time of a dish selection, under SpecPicks *)

\* C25: at the moment a select-dish token is accepted and recorded, the
\* cutoff of the chosen dish equals the bucket the resolver returns for the
\* dish's menu at that moment.
C25_AcceptedDishIsInCurrentBucket ==
    [][(/\ ev'.kind = "button" /\ ev'.data.tag = "sel"
        /\ SelAccepts(chat, ev'.data.arg)
        /\ Len(dash') = Len(dash) + 1)
       => LET dish == chat["cards_dishes"][SelIndex(ev'.data.arg) + 1]
              out == filter_dishes_for_next_slot_baseline(
                         DISHES_BY_MENU[dish.menu_id], ev'.now)
          IN  dish.before_time = out[2]]_vars

====
